---- MODULE Spec2Model ----
(***************************************************************************)
(* Tensorscope web client: the connection manager (useWebSocket), the      *)
(* synchronization store (zustand useStore) and the App callbacks that     *)
(* connect them.  Execution is event driven: every action below is one     *)
(* callback that runs to completion.                                       *)
(***************************************************************************)
EXTENDS Integers, Sequences, FiniteSets, TLC

(* ------------------------------------------------------------------ *)
(* Bounds and program constants                                        *)
(* ------------------------------------------------------------------ *)

\* the hook's option maxReconnectAttempts (the source's default is 10; the
\* hook's behaviour is the same for every value, the model runs a small one)
MaxReconnectAttempts == 3

\* number of WebSocket objects the model lets the hook create
MaxSockets == 6

\* number of effect cleanups (teardowns) the model lets happen
MaxTeardowns == 2

\* number of toasts the model lets be displayed at once
MaxToasts == 1

\* number of fetches the model lets be outstanding at once
MaxInflight == 2

\* number of calls of the hook's send the model lets happen
MaxSends == 2

\* number of slider changes the model lets one burst have
MaxBurst == 2

\* number of nodes and of edges of the graphs the model draws in full
MaxNodes == 3
MaxEdges == 2

\* number of runs of convertToReactFlow the model lets happen
MaxRenders == 2

NULL == "null"

\* currentScenario = null
NullScenario == [id |-> NULL, parameters |-> <<>>]

\* the value JSON.parse returns for the text "null"
NullMessage == [type |-> NULL]

VARIABLES
    \* ---- useWebSocket
    socks,                \* readyState of every WebSocket created, in creation order
    wsRef,                \* wsRef.current: index into socks, 0 = null
    reconnectAttemptsRef, \* reconnectAttemptsRef.current
    reconnectTimeoutRef,  \* reconnectTimeoutRef.current: a timer handle, 0 = null
    timers,               \* reconnection timers set and neither fired nor cleared
    isConnected,          \* useState isConnected
    mounted,              \* the connect effect is active (run and not cleaned up)
    teardowns,            \* number of effect cleanups so far
    \* ---- App
    reconnectAttempts,    \* App's useState reconnectAttempts
    \* ---- store
    toasts,               \* store.toasts: sequence of [id, type, message]
    toastTimers,          \* auto-remove timers of addToast still pending
    scenarios,            \* store.scenarios: the catalog
    currentScenario,      \* store.currentScenario: a ScenarioDetail or NullScenario
    isLoadingScenarios,
    isLoadingScenario,
    isRunningScenario,
    scenarioError,        \* store.scenarioError: a message or NULL
    tensors,              \* store.tensors: tensor id -> summary
    selectedTensorId,     \* store.selectedTensorId: a tensor id or NULL
    parameters,           \* store.parameters: name -> value
    isUpdatingParams,
    \* ---- requests in flight (suspended async store actions)
    loadsPending,         \* number of loadScenarios calls awaiting fetchScenarios
    selectsPending,       \* ids of the selectScenario calls awaiting fetchScenario
    runsPending,          \* runCurrentScenario calls awaiting runScenario:
                          \* [sid, params, sel]; sel = called by selectScenario(sid)
    \* ---- outbound messages and the parameter pipeline
    sent,                 \* the messages WebSocket.send transmitted, in order
    debounce,             \* ParameterSlider debounce timers set and neither fired
                          \* nor cleared: [name, value, conn, scn]
    localValue,           \* useState localValue of each mounted ParameterSlider
    \* ---- history
    sendCalls,            \* the calls HookSend made of the hook's send: [msg, open]
    burst,                \* per slider, the values changed to since its last
                          \* downstream onChange (since its mount, if none)
    lastPayload,          \* the payload ws.onmessage received last
    prevPayload,          \* the payload it received before that
    attemptsStarted,      \* the sockets reconnection timers created since the
                          \* last onopen (since the last run of the connect
                          \* effect, if none opened since)
    \* ---- OperatorGraph
    graph,                \* the graph prop: [nodes, edges]
    laidOut,              \* the useMemo ran convertToReactFlow for graph
    layers,               \* calculateLayout's layers when it returned
    positions,            \* the position map calculateLayout returned
    iterations,           \* the iterations its peeling loop made
    renders               \* the runs of convertToReactFlow so far

connVars == <<socks, wsRef, reconnectAttemptsRef, reconnectTimeoutRef, timers,
              isConnected, mounted, teardowns, reconnectAttempts>>
toastVars == <<toasts, toastTimers>>
dataVars == <<scenarios, currentScenario, tensors, selectedTensorId, parameters>>
flagVars == <<isLoadingScenarios, isLoadingScenario, isRunningScenario,
              scenarioError, isUpdatingParams>>
reqVars == <<loadsPending, selectsPending, runsPending>>
storeVars == <<dataVars, flagVars, reqVars>>
pipeVars == <<sent, debounce, localValue, sendCalls, burst>>
histVars == <<lastPayload, prevPayload, attemptsStarted>>
layoutVars == <<graph, laidOut, layers, positions, iterations, renders>>
vars == <<connVars, toastVars, storeVars, pipeVars, histVars, layoutVars>>

(* ------------------------------------------------------------------ *)
(* Store: toasts                                                       *)
(* ------------------------------------------------------------------ *)

ToastIdsInUse(ts, tt) == {ts[i].id : i \in 1..Len(ts)} \cup tt

\* a toast id is unique (Date.now() plus a random suffix): the least unused handle
FreshToastId(ts, tt) ==
    CHOOSE n \in 1..(Cardinality(ToastIdsInUse(ts, tt)) + 1) :
        n \notin ToastIdsInUse(ts, tt)

\* addToast that sets no auto-remove timer
AddToast_NoTimer(ts, tt, type, message) ==
    LET id == FreshToastId(ts, tt)
    IN  <<Append(ts, [id |-> id, type |-> type, message |-> message]), tt>>

\* addToast: appends the toast; every caller here leaves duration > 0, so the
\* auto-remove timer is always set.  Result: <<toasts, toastTimers>>
AddToast(ts, tt, type, message) ==
    LET id == FreshToastId(ts, tt)
    IN  <<Append(ts, [id |-> id, type |-> type, message |-> message]), tt \cup {id}>>

\* removeToast: filter by id
RemoveToast(ts, id) == SelectSeq(ts, LAMBDA t : t.id # id)

(* ------------------------------------------------------------------ *)
(* useWebSocket                                                        *)
(* ------------------------------------------------------------------ *)

Live(sk, s) == s # 0 /\ sk[s] \in {"OPEN", "CONNECTING"}

\* connect() without its guard
connect_Unguarded(sk, ref) == <<Append(sk, "CONNECTING"), Len(sk) + 1>>

\* connect(): returns early when the current socket is open or connecting,
\* otherwise creates a WebSocket (CONNECTING) and stores it in wsRef.
\* Result: <<socks, wsRef>>
connect(sk, ref) ==
    IF Live(sk, ref) THEN <<sk, ref>>
    ELSE <<Append(sk, "CONNECTING"), Len(sk) + 1>>

\* a call of connect() stays within the model's socket bound
ConnectFits == Live(socks, wsRef) \/ Len(socks) < MaxSockets

\* App onConnect: setReconnectAttempts(0); a success toast after a reconnect
onConnect ==
    /\ reconnectAttempts' = 0
    /\ IF reconnectAttempts > 0
       THEN /\ toasts' = AddToast(toasts, toastTimers, "success", "Reconnected to server")[1]
            /\ toastTimers' = AddToast(toasts, toastTimers, "success", "Reconnected to server")[2]
       ELSE UNCHANGED toastVars

\* ws.onopen leaving reconnectAttemptsRef as it is
SocketOpen_KeepsCount(s) ==
    /\ s \in 1..Len(socks)
    /\ socks[s] = "CONNECTING"
    /\ reconnectAttempts > 0 => Len(toasts) < MaxToasts
    /\ socks' = [socks EXCEPT ![s] = "OPEN"]
    /\ isConnected' = TRUE
    /\ onConnect
    /\ attemptsStarted' = 0
    /\ UNCHANGED <<wsRef, reconnectAttemptsRef, reconnectTimeoutRef, timers, mounted,
                   teardowns, storeVars, pipeVars, lastPayload, prevPayload, layoutVars>>

\* ws.onopen of socket s
SocketOpen(s) ==
    /\ s \in 1..Len(socks)
    /\ socks[s] = "CONNECTING"
    /\ reconnectAttempts > 0 => Len(toasts) < MaxToasts
    /\ socks' = [socks EXCEPT ![s] = "OPEN"]
    /\ isConnected' = TRUE
    /\ reconnectAttemptsRef' = 0
    /\ onConnect
    /\ attemptsStarted' = 0
    /\ UNCHANGED <<wsRef, reconnectTimeoutRef, timers, mounted, teardowns, storeVars,
                   pipeVars, lastPayload, prevPayload, layoutVars>>

\* SocketClose with onclose also resetting the store's parameters
SocketClose_ResetsParameters(s, failed) ==
    /\ s \in 1..Len(socks)
    /\ socks[s] \in {"CONNECTING", "OPEN", "CLOSING"}
    /\ socks[s] = "CONNECTING" => failed
    /\ (failed /\ reconnectAttempts = 0) => Len(toasts) < MaxToasts
    /\ socks' = [socks EXCEPT ![s] = "CLOSED"]
    /\ IF failed /\ reconnectAttempts = 0
       THEN /\ toasts' = AddToast(toasts, toastTimers, "warning", "Connection lost")[1]
            /\ toastTimers' = AddToast(toasts, toastTimers, "warning", "Connection lost")[2]
       ELSE UNCHANGED toastVars
    /\ isConnected' = FALSE
    /\ reconnectAttempts' = reconnectAttempts + 1
    /\ IF reconnectAttemptsRef < MaxReconnectAttempts
       THEN /\ reconnectAttemptsRef' = reconnectAttemptsRef + 1
            /\ reconnectTimeoutRef' = s
            /\ timers' = timers \cup {s}
       ELSE UNCHANGED <<reconnectAttemptsRef, reconnectTimeoutRef, timers>>
    /\ parameters' = [k \in DOMAIN parameters |-> 1]
    /\ UNCHANGED <<wsRef, mounted, teardowns, scenarios, currentScenario, tensors,
                   selectedTensorId, flagVars, reqVars, pipeVars, histVars, layoutVars>>

\* the socket's connection ends: ws.onerror first when it failed, then ws.onclose.
\* The timer handle of the reconnect scheduled by socket s is s.
SocketClose(s, failed) ==
    /\ s \in 1..Len(socks)
    /\ socks[s] \in {"CONNECTING", "OPEN", "CLOSING"}
    /\ socks[s] = "CONNECTING" => failed
    /\ (failed /\ reconnectAttempts = 0) => Len(toasts) < MaxToasts
    /\ socks' = [socks EXCEPT ![s] = "CLOSED"]
    \* onError (App): a warning toast on the first failure
    /\ IF failed /\ reconnectAttempts = 0
       THEN /\ toasts' = AddToast(toasts, toastTimers, "warning", "Connection lost")[1]
            /\ toastTimers' = AddToast(toasts, toastTimers, "warning", "Connection lost")[2]
       ELSE UNCHANGED toastVars
    \* onclose
    /\ isConnected' = FALSE
    /\ reconnectAttempts' = reconnectAttempts + 1
    /\ IF reconnectAttemptsRef < MaxReconnectAttempts
       THEN /\ reconnectAttemptsRef' = reconnectAttemptsRef + 1
            /\ reconnectTimeoutRef' = s
            /\ timers' = timers \cup {s}
       ELSE UNCHANGED <<reconnectAttemptsRef, reconnectTimeoutRef, timers>>
    /\ UNCHANGED <<wsRef, mounted, teardowns, storeVars, pipeVars, histVars, layoutVars>>

\* a reconnection timer fires: connect()
TimerFire(t) ==
    /\ t \in timers
    /\ ConnectFits
    /\ timers' = timers \ {t}
    /\ socks' = connect(socks, wsRef)[1]
    /\ wsRef' = connect(socks, wsRef)[2]
    /\ attemptsStarted' = attemptsStarted + (Len(socks') - Len(socks))
    /\ UNCHANGED <<reconnectAttemptsRef, reconnectTimeoutRef, isConnected, mounted,
                   teardowns, reconnectAttempts, toastVars, storeVars, pipeVars,
                   lastPayload, prevPayload, layoutVars>>

\* the connect effect runs (mount, or re-run after a cleanup): connect()
Mount ==
    /\ ~mounted
    /\ ConnectFits
    /\ mounted' = TRUE
    /\ socks' = connect(socks, wsRef)[1]
    /\ wsRef' = connect(socks, wsRef)[2]
    /\ attemptsStarted' = 0
    /\ UNCHANGED <<reconnectAttemptsRef, reconnectTimeoutRef, timers, isConnected,
                   teardowns, reconnectAttempts, toastVars, storeVars, pipeVars,
                   lastPayload, prevPayload, layoutVars>>

\* WebSocket.close(): an open or connecting socket starts closing; its close
\* event is delivered later
close(sk, s) ==
    IF Live(sk, s) THEN [sk EXCEPT ![s] = "CLOSING"] ELSE sk

\* the effect cleanup: clearTimeout(reconnectTimeoutRef.current); wsRef.current?.close()
Cleanup ==
    /\ mounted
    /\ teardowns < MaxTeardowns
    /\ mounted' = FALSE
    /\ teardowns' = teardowns + 1
    /\ timers' = IF reconnectTimeoutRef # 0 THEN timers \ {reconnectTimeoutRef} ELSE timers
    /\ socks' = close(socks, wsRef)
    /\ UNCHANGED <<wsRef, reconnectAttemptsRef, reconnectTimeoutRef, isConnected,
                   reconnectAttempts, toastVars, storeVars, pipeVars, histVars, layoutVars>>

\* the auto-remove timer of a toast fires: removeToast(id)
ToastExpire(id) ==
    /\ id \in toastTimers
    /\ toastTimers' = toastTimers \ {id}
    /\ toasts' = RemoveToast(toasts, id)
    /\ UNCHANGED <<connVars, storeVars, pipeVars, histVars, layoutVars>>

\* App getConnectionStatus
ConnectionStatus ==
    IF isConnected THEN "connected"
    ELSE IF reconnectAttempts > 0 /\ reconnectAttempts < MaxReconnectAttempts THEN "reconnecting"
    ELSE IF reconnectAttempts >= MaxReconnectAttempts THEN "failed"
    ELSE "disconnected"


(* ------------------------------------------------------------------ *)
(* useWebSocket: outbound                                              *)
(* ------------------------------------------------------------------ *)

\* send transmitting whatever the socket's readyState
send_Unchecked(sk, ref, out, message) ==
    IF ref # 0 THEN Append(out, message) ELSE out

\* send(message): WebSocket.send when wsRef.current is OPEN, else a console
\* warning only.  Result: the transmitted messages
send(sk, ref, out, message) ==
    IF ref # 0 /\ sk[ref] = "OPEN"
    THEN Append(out, message)
    ELSE out

\* the messages subscribe, unsubscribe and updateParam hand to send
subscribe(tensorId) == [type |-> "subscribe", tensor_id |-> tensorId]
unsubscribe(tensorId) == [type |-> "unsubscribe", tensor_id |-> tensorId]
updateParam(scenarioId, param, value) ==
    [type |-> "update_param", scenario_id |-> scenarioId, param |-> param, value |-> value]

\* the messages the model's callers hand to the hook
ClientMessages ==
    {subscribe("t1"), unsubscribe("t1"), updateParam("A", "p", 1)}

\* a caller of the hook invokes subscribe, unsubscribe or updateParam
HookSend(message) ==
    /\ Len(sendCalls) < MaxSends
    /\ sent' = send(socks, wsRef, sent, message)
    /\ sendCalls' = Append(sendCalls,
           [msg |-> message, open |-> (wsRef # 0 /\ socks[wsRef] = "OPEN")])
    /\ UNCHANGED <<connVars, toastVars, storeVars, debounce, localValue, burst, histVars, layoutVars>>

(* ------------------------------------------------------------------ *)
(* Server data the model draws from                                    *)
(* ------------------------------------------------------------------ *)

ScenarioIds == {"A", "B"}
ParamNames == {"p", "q"}
Values == {1, 2}
TensorIds == {"t1", "t2"}

\* the declared Parameter list of each scenario (name, default)
DeclaredParameters(sid) ==
    IF sid = "A" THEN <<[name |-> "p", default |-> 1]>>
    ELSE <<[name |-> "p", default |-> 2], [name |-> "q", default |-> 1]>>

\* the ScenarioDetail the detail fetch returns for id
ScenarioDetail(sid) == [id |-> sid, parameters |-> DeclaredParameters(sid)]

\* the catalogs fetchScenarios may return
Catalogs == {<<"A", "B">>}

\* the tensors a run of each scenario outputs
OutputIds(sid) == IF sid = "A" THEN {"t1"} ELSE {"t1", "t2"}

\* a TensorSummary, told apart by the scenario it was computed for
Summaries == [scn : ScenarioIds]

\* the tensor maps a run of scenario sid may return
RunResponses(sid) == {[k \in OutputIds(sid) |-> [scn |-> sid]]}

ErrorMessage == "API error"

EmptyMap == [k \in {} |-> 0]

\* { ...m, [k]: v }
Put(m, k, v) == [x \in DOMAIN m \cup {k} |-> IF x = k THEN v ELSE m[x]]

RemoveAt(q, i) == SubSeq(q, 1, i - 1) \o SubSeq(q, i + 1, Len(q))

(* ------------------------------------------------------------------ *)
(* The sliders across a render of the ParameterPanel                   *)
(* ------------------------------------------------------------------ *)

\* the names the ParameterPanel shows controls for
DeclaredNames(scenario) == {scenario.parameters[i].name : i \in DOMAIN scenario.parameters}

\* the debounce timers left when the panel renders scenario: a slider whose
\* name is no longer declared unmounts and its cleanup clears its timer; a
\* slider whose name is still declared is the same component and keeps it
UnmountSliders(pending, scenario) ==
    {t \in pending : t.name \in DeclaredNames(scenario)}

\* the localValue of every slider when the panel renders scenario with the
\* stored values newParams: a slider that mounts starts from its value prop;
\* one that stays takes the prop when the prop changed (the sync effect) and
\* keeps its localValue otherwise
SyncLocal(lv, oldParams, scenario, newParams) ==
    [name \in DeclaredNames(scenario) |->
        IF name \notin DOMAIN lv \/ name \notin DOMAIN oldParams THEN newParams[name]
        ELSE IF newParams[name] # oldParams[name] THEN newParams[name]
        ELSE lv[name]]

\* the change history across a render: it restarts for a slider that mounts
KeepBursts(bs, oldScenario, scenario) ==
    [name \in DOMAIN bs |->
        IF name \in DeclaredNames(scenario) \ DeclaredNames(oldScenario)
        THEN <<>> ELSE bs[name]]

(* ------------------------------------------------------------------ *)
(* Store actions                                                       *)
(* ------------------------------------------------------------------ *)

Outstanding == loadsPending + Len(selectsPending) + Len(runsPending)

\* loadScenarios, up to its await
loadScenarios ==
    /\ Outstanding < MaxInflight
    /\ isLoadingScenarios' = TRUE
    /\ scenarioError' = NULL
    /\ loadsPending' = loadsPending + 1
    /\ UNCHANGED <<pipeVars, histVars, layoutVars, connVars, toastVars, dataVars, isLoadingScenario, isRunningScenario,
                   isUpdatingParams, selectsPending, runsPending>>

\* loadScenarios, fetchScenarios resolved with a catalog
LoadOk(catalog) ==
    /\ loadsPending > 0
    /\ loadsPending' = loadsPending - 1
    /\ scenarios' = catalog
    /\ isLoadingScenarios' = FALSE
    /\ UNCHANGED <<pipeVars, histVars, layoutVars, connVars, toastVars, currentScenario, tensors, selectedTensorId,
                   parameters, isLoadingScenario, isRunningScenario, scenarioError,
                   isUpdatingParams, selectsPending, runsPending>>

\* LoadFail with the catch branch forgetting isLoadingScenarios: false
LoadFail_KeepsFlag ==
    /\ loadsPending > 0
    /\ loadsPending' = loadsPending - 1
    /\ scenarioError' = ErrorMessage
    /\ UNCHANGED <<pipeVars, histVars, layoutVars, connVars, toastVars, dataVars, isLoadingScenarios,
                   isLoadingScenario, isRunningScenario, isUpdatingParams,
                   selectsPending, runsPending>>

\* loadScenarios, fetchScenarios rejected (catch branch)
LoadFail ==
    /\ loadsPending > 0
    /\ loadsPending' = loadsPending - 1
    /\ scenarioError' = ErrorMessage
    /\ isLoadingScenarios' = FALSE
    /\ UNCHANGED <<pipeVars, histVars, layoutVars, connVars, toastVars, dataVars, isLoadingScenario, isRunningScenario,
                   isUpdatingParams, selectsPending, runsPending>>

\* selectScenario(id), up to its await; App calls it on a click on an entry
\* of the scenario list, unless isLoadingScenario
selectScenario(id) ==
    /\ Outstanding < MaxInflight
    /\ \E k \in DOMAIN scenarios : scenarios[k] = id
    /\ ~isLoadingScenario
    /\ isLoadingScenario' = TRUE
    /\ scenarioError' = NULL
    /\ selectsPending' = Append(selectsPending, id)
    /\ UNCHANGED <<pipeVars, histVars, layoutVars, connVars, toastVars, dataVars, isLoadingScenarios, isRunningScenario,
                   isUpdatingParams, loadsPending, runsPending>>

\* defaultParams: forEach over the declared parameters, later names overwrite
RECURSIVE DefaultsFrom(_, _)
DefaultsFrom(ps, acc) ==
    IF ps = <<>> THEN acc
    ELSE DefaultsFrom(Tail(ps), Put(acc, Head(ps).name, Head(ps).default))

DefaultParams(scenario) == DefaultsFrom(scenario.parameters, EmptyMap)

\* SelectFetchOk with the switch leaving selectedTensorId as it was
SelectFetchOk_KeepsSelection(i) ==
    /\ i \in 1..Len(selectsPending)
    /\ LET scenario == ScenarioDetail(selectsPending[i])
           defaultParams == DefaultParams(scenario)
       IN  /\ currentScenario' = scenario
           /\ parameters' = defaultParams
           /\ isLoadingScenario' = FALSE
           /\ tensors' = EmptyMap
           /\ isRunningScenario' = TRUE
           /\ runsPending' = Append(runsPending,
                  [sid |-> scenario.id, params |-> defaultParams, sel |-> TRUE])
           /\ debounce' = UnmountSliders(debounce, scenario)
           /\ localValue' = SyncLocal(localValue, parameters, scenario, defaultParams)
           /\ burst' = KeepBursts(burst, currentScenario, scenario)
    /\ selectsPending' = RemoveAt(selectsPending, i)
    /\ UNCHANGED <<sent, sendCalls, histVars, layoutVars, connVars, toastVars, scenarios, selectedTensorId,
                   isLoadingScenarios, scenarioError, isUpdatingParams, loadsPending>>

\* SelectFetchOk whose run request is made with the parameters of before
\* the switch
SelectFetchOk_RunsOldParameters(i) ==
    /\ i \in 1..Len(selectsPending)
    /\ LET scenario == ScenarioDetail(selectsPending[i])
           defaultParams == DefaultParams(scenario)
       IN  /\ currentScenario' = scenario
           /\ parameters' = defaultParams
           /\ isLoadingScenario' = FALSE
           /\ tensors' = EmptyMap
           /\ selectedTensorId' = NULL
           /\ isRunningScenario' = TRUE
           /\ runsPending' = Append(runsPending,
                  [sid |-> scenario.id, params |-> parameters, sel |-> TRUE])
           /\ debounce' = UnmountSliders(debounce, scenario)
           /\ localValue' = SyncLocal(localValue, parameters, scenario, defaultParams)
           /\ burst' = KeepBursts(burst, currentScenario, scenario)
    /\ selectsPending' = RemoveAt(selectsPending, i)
    /\ UNCHANGED <<sent, sendCalls, histVars, layoutVars, connVars, toastVars, scenarios, isLoadingScenarios, scenarioError,
                   isUpdatingParams, loadsPending>>

\* selectScenario, fetchScenario resolved: the switch (one set call), then
\* runCurrentScenario() up to its await (the scenario just set is current).
SelectFetchOk(i) ==
    /\ i \in 1..Len(selectsPending)
    /\ LET scenario == ScenarioDetail(selectsPending[i])
           defaultParams == DefaultParams(scenario)
       IN  /\ currentScenario' = scenario
           /\ parameters' = defaultParams
           /\ isLoadingScenario' = FALSE
           /\ tensors' = EmptyMap
           /\ selectedTensorId' = NULL
           /\ isRunningScenario' = TRUE
           /\ runsPending' = Append(runsPending,
                  [sid |-> scenario.id, params |-> defaultParams, sel |-> TRUE])
           /\ debounce' = UnmountSliders(debounce, scenario)
           /\ localValue' = SyncLocal(localValue, parameters, scenario, defaultParams)
           /\ burst' = KeepBursts(burst, currentScenario, scenario)
    /\ selectsPending' = RemoveAt(selectsPending, i)
    /\ UNCHANGED <<sent, sendCalls, histVars, layoutVars, connVars, toastVars, scenarios, isLoadingScenarios, scenarioError,
                   isUpdatingParams, loadsPending>>

\* SelectFetchFail with the catch branch also dropping the current scenario
SelectFetchFail_ClearsScenario(i) ==
    /\ i \in 1..Len(selectsPending)
    /\ Len(toasts) < MaxToasts
    /\ selectsPending' = RemoveAt(selectsPending, i)
    /\ scenarioError' = ErrorMessage
    /\ isLoadingScenario' = FALSE
    /\ currentScenario' = NullScenario
    /\ parameters' = EmptyMap
    /\ toasts' = AddToast(toasts, toastTimers, "error", ErrorMessage)[1]
    /\ toastTimers' = AddToast(toasts, toastTimers, "error", ErrorMessage)[2]
    /\ UNCHANGED <<pipeVars, histVars, layoutVars, connVars, scenarios, tensors, selectedTensorId,
                   isLoadingScenarios, isRunningScenario, isUpdatingParams,
                   loadsPending, runsPending>>

\* selectScenario, fetchScenario rejected (catch branch)
SelectFetchFail(i) ==
    /\ i \in 1..Len(selectsPending)
    /\ Len(toasts) < MaxToasts
    /\ selectsPending' = RemoveAt(selectsPending, i)
    /\ scenarioError' = ErrorMessage
    /\ isLoadingScenario' = FALSE
    /\ toasts' = AddToast(toasts, toastTimers, "error", ErrorMessage)[1]
    /\ toastTimers' = AddToast(toasts, toastTimers, "error", ErrorMessage)[2]
    /\ UNCHANGED <<pipeVars, histVars, layoutVars, connVars, dataVars, isLoadingScenarios, isRunningScenario,
                   isUpdatingParams, loadsPending, runsPending>>

\* clearScenario with the sliders' unmount cleanup leaving the timers set
clearScenario_KeepsTimers ==
    /\ currentScenario' = NullScenario
    /\ parameters' = EmptyMap
    /\ tensors' = EmptyMap
    /\ selectedTensorId' = NULL
    /\ localValue' = SyncLocal(localValue, parameters, NullScenario, EmptyMap)
    /\ burst' = KeepBursts(burst, currentScenario, NullScenario)
    /\ UNCHANGED <<sent, debounce, sendCalls, histVars, layoutVars, connVars, toastVars, scenarios,
                   flagVars, reqVars>>

\* clearScenario, and the render that follows it: the panel and its sliders
\* unmount
clearScenario ==
    /\ currentScenario' = NullScenario
    /\ parameters' = EmptyMap
    /\ tensors' = EmptyMap
    /\ selectedTensorId' = NULL
    /\ debounce' = UnmountSliders(debounce, NullScenario)
    /\ localValue' = SyncLocal(localValue, parameters, NullScenario, EmptyMap)
    /\ burst' = KeepBursts(burst, currentScenario, NullScenario)
    /\ UNCHANGED <<sent, sendCalls, histVars, layoutVars, connVars, toastVars, scenarios, flagVars, reqVars>>

\* updateParameter that also starts a run of the current scenario
updateParameter_AlsoRuns(name, value) ==
    /\ name \in DeclaredNames(currentScenario)
    /\ Outstanding < MaxInflight
    /\ parameters' = Put(parameters, name, value)
    /\ isRunningScenario' = TRUE
    /\ runsPending' = Append(runsPending,
           [sid |-> currentScenario.id, params |-> parameters', sel |-> FALSE])
    /\ localValue' = SyncLocal(localValue, parameters, currentScenario, parameters')
    /\ UNCHANGED <<sent, debounce, sendCalls, burst, histVars, layoutVars, connVars, toastVars, scenarios,
                   currentScenario, tensors,
                   selectedTensorId, isLoadingScenarios, isLoadingScenario, scenarioError,
                   isUpdatingParams, loadsPending, selectsPending>>

\* updateParameter(name, value), called for a control of the current scenario
updateParameter(name, value) ==
    /\ name \in DeclaredNames(currentScenario)
    /\ parameters' = Put(parameters, name, value)
    /\ localValue' = SyncLocal(localValue, parameters, currentScenario, parameters')
    /\ UNCHANGED <<sent, debounce, sendCalls, burst, histVars, layoutVars, connVars, toastVars, scenarios,
                   currentScenario, tensors, selectedTensorId, flagVars, reqVars>>

\* runCurrentScenario called on its own, up to its await
runCurrentScenario ==
    /\ Outstanding < MaxInflight
    /\ IF currentScenario = NullScenario
       THEN UNCHANGED <<isRunningScenario, runsPending>>
       ELSE /\ isRunningScenario' = TRUE
            /\ runsPending' = Append(runsPending,
                   [sid |-> currentScenario.id, params |-> parameters, sel |-> FALSE])
    /\ UNCHANGED <<pipeVars, histVars, layoutVars, connVars, toastVars, dataVars, isLoadingScenarios, isLoadingScenario,
                   scenarioError, isUpdatingParams, loadsPending, selectsPending>>

\* runCurrentScenario, runScenario resolved with the response's tensors
RunOk(i, response) ==
    /\ i \in 1..Len(runsPending)
    /\ response \in RunResponses(runsPending[i].sid)
    /\ runsPending' = RemoveAt(runsPending, i)
    /\ tensors' = response
    /\ isRunningScenario' = FALSE
    /\ UNCHANGED <<pipeVars, histVars, layoutVars, connVars, toastVars, scenarios, currentScenario, selectedTensorId,
                   parameters, isLoadingScenarios, isLoadingScenario, scenarioError,
                   isUpdatingParams, loadsPending, selectsPending>>

\* RunFail with the catch branch also discarding the tensors shown
RunFail_ClearsTensors(i) ==
    /\ i \in 1..Len(runsPending)
    /\ Len(toasts) < MaxToasts
    /\ runsPending' = RemoveAt(runsPending, i)
    /\ isRunningScenario' = FALSE
    /\ tensors' = EmptyMap
    /\ toasts' = AddToast(toasts, toastTimers, "error", ErrorMessage)[1]
    /\ toastTimers' = AddToast(toasts, toastTimers, "error", ErrorMessage)[2]
    /\ UNCHANGED <<pipeVars, histVars, layoutVars, connVars, scenarios, currentScenario, selectedTensorId,
                   parameters, isLoadingScenarios, isLoadingScenario,
                   scenarioError, isUpdatingParams, loadsPending, selectsPending>>

\* runCurrentScenario, runScenario rejected (catch branch)
RunFail(i) ==
    /\ i \in 1..Len(runsPending)
    /\ Len(toasts) < MaxToasts
    /\ runsPending' = RemoveAt(runsPending, i)
    /\ isRunningScenario' = FALSE
    /\ toasts' = AddToast(toasts, toastTimers, "error", ErrorMessage)[1]
    /\ toastTimers' = AddToast(toasts, toastTimers, "error", ErrorMessage)[2]
    /\ UNCHANGED <<pipeVars, histVars, layoutVars, connVars, dataVars, isLoadingScenarios, isLoadingScenario,
                   scenarioError, isUpdatingParams, loadsPending, selectsPending>>

\* selectTensor(id), called for an entry of the tensor list
selectTensor(id) ==
    /\ id \in DOMAIN tensors
    /\ selectedTensorId' = id
    /\ UNCHANGED <<pipeVars, histVars, layoutVars, connVars, toastVars, scenarios, currentScenario, tensors, parameters,
                   flagVars, reqVars>>

\* the user dismisses a toast (ToastContainer onDismiss = removeToast)
DismissToast(id) ==
    /\ \E i \in 1..Len(toasts) : toasts[i].id = id
    /\ toasts' = RemoveToast(toasts, id)
    /\ UNCHANGED <<connVars, toastTimers, storeVars, pipeVars, histVars, layoutVars>>

(* ------------------------------------------------------------------ *)
(* Inbound messages: ws.onmessage and App's onMessage                  *)
(* ------------------------------------------------------------------ *)

ServerMessages ==
    [type : {"tensor_update"}, tensor_id : TensorIds, summary : Summaries]
    \cup [type : {"tensors_update"}, tensors : UNION {RunResponses(sid) : sid \in ScenarioIds}]
    \cup [type : {"graph_update"}]
    \cup [type : {"error"}, message : {"invalid parameter"}]

\* what arrives on the socket: the JSON text of a message, the JSON text "null",
\* or text that is no JSON
Payloads ==
    [text : {"json"}, value : ServerMessages]
    \cup {[text |-> "null"], [text |-> "garbage"]}

NoPayload == [text |-> "none"]

\* JSON.parse that turns text that is no JSON into an error message
JSONParse_Lenient(data) ==
    IF data.text = "json" THEN [threw |-> FALSE, value |-> data.value]
    ELSE IF data.text = "null" THEN [threw |-> FALSE, value |-> NullMessage]
    ELSE [threw |-> FALSE, value |-> [type |-> "error", message |-> "parse error"]]

\* JSON.parse(event.data): throws on text that is no JSON
JSONParse(data) ==
    IF data.text = "json" THEN [threw |-> FALSE, value |-> data.value]
    ELSE IF data.text = "null" THEN [threw |-> FALSE, value |-> NullMessage]
    ELSE [threw |-> TRUE]

\* updateTensor keeping only the named key
updateTensor_DropsOthers(ts, id, summary) == Put(EmptyMap, id, summary)

\* store.updateTensor: { ...state.tensors, [id]: summary }
updateTensor(ts, id, summary) == Put(ts, id, summary)

\* setTensors merging the map into state.tensors
setTensors_Merges(ts, map) ==
    [k \in DOMAIN ts \cup DOMAIN map |-> IF k \in DOMAIN map THEN map[k] ELSE ts[k]]

\* store.setTensors: the map replaces state.tensors
setTensors(ts, map) == map

\* onMessage with a graph_update branch that drops the tensors of the old graph
onMessage_AppliesGraph(message) ==
    IF message.type = NULL THEN UNCHANGED <<toastVars, storeVars>>
    ELSE IF message.type = "tensor_update"
    THEN /\ tensors' = updateTensor(tensors, message.tensor_id, message.summary)
         /\ isUpdatingParams' = FALSE
         /\ UNCHANGED <<toastVars, scenarios, currentScenario, selectedTensorId, parameters,
                        isLoadingScenarios, isLoadingScenario, isRunningScenario,
                        scenarioError, reqVars>>
    ELSE IF message.type = "tensors_update"
    THEN /\ tensors' = setTensors(tensors, message.tensors)
         /\ isUpdatingParams' = FALSE
         /\ UNCHANGED <<toastVars, scenarios, currentScenario, selectedTensorId, parameters,
                        isLoadingScenarios, isLoadingScenario, isRunningScenario,
                        scenarioError, reqVars>>
    ELSE IF message.type = "error"
    THEN /\ toasts' = AddToast(toasts, toastTimers, "error", message.message)[1]
         /\ toastTimers' = AddToast(toasts, toastTimers, "error", message.message)[2]
         /\ isUpdatingParams' = FALSE
         /\ UNCHANGED <<dataVars, isLoadingScenarios, isLoadingScenario, isRunningScenario,
                        scenarioError, reqVars>>
    ELSE /\ tensors' = EmptyMap
         /\ selectedTensorId' = NULL
         /\ UNCHANGED <<toastVars, scenarios, currentScenario, parameters, isUpdatingParams,
                        isLoadingScenarios, isLoadingScenario, isRunningScenario,
                        scenarioError, reqVars>>

\* App's onMessage(message); reading message.type of null throws before any
\* update, inside the hook's try block
onMessage(message) ==
    IF message.type = NULL THEN UNCHANGED <<toastVars, storeVars>>
    ELSE IF message.type = "tensor_update"
    THEN /\ tensors' = updateTensor(tensors, message.tensor_id, message.summary)
         /\ isUpdatingParams' = FALSE
         /\ UNCHANGED <<toastVars, scenarios, currentScenario, selectedTensorId, parameters,
                        isLoadingScenarios, isLoadingScenario, isRunningScenario,
                        scenarioError, reqVars>>
    ELSE IF message.type = "tensors_update"
    THEN /\ tensors' = setTensors(tensors, message.tensors)
         /\ isUpdatingParams' = FALSE
         /\ UNCHANGED <<toastVars, scenarios, currentScenario, selectedTensorId, parameters,
                        isLoadingScenarios, isLoadingScenario, isRunningScenario,
                        scenarioError, reqVars>>
    ELSE IF message.type = "error"
    THEN /\ toasts' = AddToast(toasts, toastTimers, "error", message.message)[1]
         /\ toastTimers' = AddToast(toasts, toastTimers, "error", message.message)[2]
         /\ isUpdatingParams' = FALSE
         /\ UNCHANGED <<dataVars, isLoadingScenarios, isLoadingScenario, isRunningScenario,
                        scenarioError, reqVars>>
    ELSE UNCHANGED <<toastVars, storeVars>>

\* ws.onmessage of socket s (message events are delivered to an open socket)
SocketMessage(s, data) ==
    /\ s \in 1..Len(socks)
    /\ socks[s] = "OPEN"
    /\ (data.text = "json" /\ data.value.type = "error") => Len(toasts) < MaxToasts
    /\ IF JSONParse(data).threw
       THEN UNCHANGED <<toastVars, storeVars>>
       ELSE onMessage(JSONParse(data).value)
    /\ prevPayload' = lastPayload
    /\ lastPayload' = data
    /\ UNCHANGED <<connVars, pipeVars, layoutVars, attemptsStarted>>

(* ------------------------------------------------------------------ *)
(* Parameter pipeline: ParameterSlider and App's handleParameterChange *)
(* ------------------------------------------------------------------ *)

\* the value the slider of parameter name shows
LocalValue(name) == localValue[name]

\* handleChange that sets the new timer without clearing the pending one
handleChange_NoClear(pending, name, value, conn, scn) ==
    pending \cup {[name |-> name, value |-> value, conn |-> conn, scn |-> scn]}

\* ParameterSlider.handleChange: clearTimeout(debounceRef.current), then
\* setTimeout(() => onChange(newValue), debounceMs).  The callback closes over
\* the onChange of the render the change happened in, and with it over that
\* render's isConnected (conn) and currentScenario (scn).  Result: the
\* pending debounce timers
handleChange(pending, name, value, conn, scn) ==
    {t \in pending : t.name # name}
        \cup {[name |-> name, value |-> value, conn |-> conn, scn |-> scn]}

\* the user moves the slider of parameter name to value
SliderChange(name, value) ==
    /\ currentScenario # NullScenario
    /\ name \in DeclaredNames(currentScenario)
    /\ value # LocalValue(name)
    /\ Len(burst[name]) < MaxBurst
    /\ debounce' = handleChange(debounce, name, value, isConnected, currentScenario.id)
    /\ burst' = [burst EXCEPT ![name] = Append(@, value)]
    /\ localValue' = [localValue EXCEPT ![name] = value]
    /\ UNCHANGED <<connVars, toastVars, storeVars, sent, sendCalls, histVars, layoutVars>>

\* DebounceFire whose updateParam transmits without looking at the socket
DebounceFire_Retries(t) ==
    /\ t \in debounce
    /\ t.conn => Len(sent) < MaxSends
    /\ debounce' = debounce \ {t}
    /\ burst' = [burst EXCEPT ![t.name] = <<>>]
    /\ parameters' = Put(parameters, t.name, t.value)
    /\ localValue' = SyncLocal(localValue, parameters, currentScenario, parameters')
    /\ IF t.conn /\ t.scn # NULL
       THEN /\ isUpdatingParams' = TRUE
            /\ sent' = Append(sent, updateParam(t.scn, t.name, t.value))
       ELSE UNCHANGED <<isUpdatingParams, sent>>
    /\ UNCHANGED <<sendCalls, connVars, toastVars, scenarios, currentScenario, tensors,
                   selectedTensorId, isLoadingScenarios, isLoadingScenario,
                   isRunningScenario, scenarioError, reqVars, histVars, layoutVars>>

\* a debounce timer fires: onChange(newValue), that is App's
\* handleParameterChange(name, value) of the render the timer was set in:
\* updateParameter, then, if that render's isConnected && currentScenario,
\* setUpdatingParams(true) and updateParam(currentScenario.id, name, value)
DebounceFire(t) ==
    /\ t \in debounce
    /\ t.conn => Len(sent) < MaxSends
    /\ debounce' = debounce \ {t}
    /\ burst' = [burst EXCEPT ![t.name] = <<>>]
    /\ parameters' = Put(parameters, t.name, t.value)
    /\ localValue' = SyncLocal(localValue, parameters, currentScenario, parameters')
    /\ IF t.conn /\ t.scn # NULL
       THEN /\ isUpdatingParams' = TRUE
            /\ sent' = send(socks, wsRef, sent, updateParam(t.scn, t.name, t.value))
       ELSE UNCHANGED <<isUpdatingParams, sent>>
    /\ UNCHANGED <<sendCalls, connVars, toastVars, scenarios, currentScenario, tensors,
                   selectedTensorId, isLoadingScenarios, isLoadingScenario,
                   isRunningScenario, scenarioError, reqVars, histVars, layoutVars>>

\* the debounce timers the model can hold
DebounceTimers ==
    [name : ParamNames, value : Values, conn : BOOLEAN, scn : ScenarioIds]

(* ------------------------------------------------------------------ *)
(* Layout engine: calculateLayout and the OperatorGraph's memo         *)
(* ------------------------------------------------------------------ *)

HORIZONTAL_SPACING == 280
VERTICAL_SPACING == 100

\* the node id of an edge end that no node of the graph declares; the
\* declared ids are 1, 2, ...
UnknownId == 0

GraphEdge(from, to) == [from_node |-> from, to_node |-> to]

\* a Graph: the ids of its nodes in input order, and its edges in order
Graph(nodes, edges) == [nodes |-> nodes, edges |-> edges]

EmptyGraph == Graph(<<>>, <<>>)

Range(s) == {s[k] : k \in DOMAIN s}

\* inDegree after edges.forEach: 0 for every declared node, then one more for
\* the to_node of every edge, declared or not
inDegree(nodes, edges) ==
    [id \in Range(nodes) \cup {edges[k].to_node : k \in DOMAIN edges} |->
        Cardinality({k \in DOMAIN edges : edges[k].to_node = id})]

\* outEdges after edges.forEach: per declared node the to_node of its edges,
\* in edge order; an edge from an undeclared id is skipped by ?.
outEdges(nodes, edges) ==
    [id \in Range(nodes) |->
        LET leaving == SelectSeq(edges, LAMBDA edge : edge.from_node = id)
        IN  [k \in DOMAIN leaving |-> leaving[k].to_node]]

\* inEdges after edges.forEach: per declared node the from_node of the edges
\* into it, in edge order; an edge to an undeclared id is skipped by ?.
inEdges(nodes, edges) ==
    [id \in Range(nodes) |->
        LET entering == SelectSeq(edges, LAMBDA edge : edge.to_node = id)
        IN  [k \in DOMAIN entering |-> entering[k].from_node]]

\* map.get(id) || []
Neighbours(map, id) == IF id \in DOMAIN map THEN map[id] ELSE <<>>

\* the targetIds the two nested forEach of the peeling loop go through, in order
RECURSIVE Targets(_, _)
Targets(currentLayer, out) ==
    IF currentLayer = <<>> THEN <<>>
    ELSE Neighbours(out, Head(currentLayer)) \o Targets(Tail(currentLayer), out)

\* Release that puts a target in the next layer at its first decrement
RECURSIVE Release_AtFirst(_, _, _, _)
Release_AtFirst(targets, visited, degree, nextLayer) ==
    IF targets = <<>> THEN [inDegree |-> degree, nextLayer |-> nextLayer]
    ELSE LET targetId == Head(targets)
         IN  IF targetId \in visited \/ targetId \in Range(nextLayer)
             THEN Release_AtFirst(Tail(targets), visited, degree, nextLayer)
             ELSE Release_AtFirst(Tail(targets), visited, degree,
                                  Append(nextLayer, targetId))

\* the body of the inner forEach applied to those targets in turn: the
\* in-degrees and the next layer it leaves
RECURSIVE Release(_, _, _, _)
Release(targets, visited, degree, nextLayer) ==
    IF targets = <<>> THEN [inDegree |-> degree, nextLayer |-> nextLayer]
    ELSE LET targetId == Head(targets)
             remaining == degree[targetId] - 1
         IN  IF targetId \in visited
             THEN Release(Tail(targets), visited, degree, nextLayer)
             ELSE Release(Tail(targets), visited,
                          [degree EXCEPT ![targetId] = remaining],
                          IF remaining = 0 THEN Append(nextLayer, targetId)
                                           ELSE nextLayer)

\* the while loop from the state before an iteration: the layers, the visited
\* set and the number of iterations on exit
RECURSIVE Peel(_, _, _, _, _, _)
Peel(currentLayer, layering, visited, degree, out, rounds) ==
    IF Len(currentLayer) = 0
    THEN [layers |-> layering, visited |-> visited, iterations |-> rounds]
    ELSE LET seen == visited \cup Range(currentLayer)
             released == Release(Targets(currentLayer, out), seen, degree, <<>>)
         IN  Peel(released.nextLayer, Append(layering, currentLayer), seen,
                  released.inDegree, out, rounds + 1)

\* "Handle any remaining nodes": nodes.forEach over the nodes left, in input
\* order; lastLayer is read from layers.length for each of them
RECURSIVE Remaining(_, _, _)
Remaining(nodes, layering, visited) ==
    IF nodes = <<>> THEN layering
    ELSE IF Head(nodes) \in visited THEN Remaining(Tail(nodes), layering, visited)
    ELSE LET lastLayer == IF Len(layering) > 0 THEN Len(layering) ELSE 0
             grown == IF lastLayer + 1 \in DOMAIN layering THEN layering
                      ELSE Append(layering, <<>>)
         IN  Remaining(Tail(nodes),
                       [grown EXCEPT ![lastLayer + 1] = Append(@, Head(nodes))],
                       visited)

\* "Assign layers using topological sort": the layers before any reordering,
\* the ids the peeling loop visited and the iterations it made
assignLayers(nodes, edges) ==
    LET degree == inDegree(nodes, edges)
        start == SelectSeq(nodes, LAMBDA id : degree[id] = 0)
        peeled == Peel(start, <<>>, {}, degree, outEdges(nodes, edges), 0)
    IN  [layers |-> Remaining(nodes, peeled.layers, peeled.visited),
         visited |-> peeled.visited,
         iterations |-> peeled.iterations]

\* nodeYPosition.get(id) || 0
YPosition(nodeYPosition, id) ==
    IF id \in DOMAIN nodeYPosition THEN nodeYPosition[id] ELSE 0

\* layer.forEach((nodeId, index) => nodeYPosition.set(nodeId, index))
Reindex(nodeYPosition, layer) ==
    [id \in DOMAIN nodeYPosition \cup Range(layer) |->
        IF id \in Range(layer)
        THEN (CHOOSE k \in DOMAIN layer :
                 layer[k] = id /\ \A j \in DOMAIN layer : layer[j] = id => j <= k) - 1
        ELSE nodeYPosition[id]]

\* ids.reduce((sum, p) => sum + (nodeYPosition.get(p) || 0), 0)
RECURSIVE SumY(_, _)
SumY(ids, nodeYPosition) ==
    IF ids = <<>> THEN 0
    ELSE YPosition(nodeYPosition, Head(ids)) + SumY(Tail(ids), nodeYPosition)

\* a barycenter is kept as the fraction num / den, den > 0
Average(ids, nodeYPosition) == [num |-> SumY(ids, nodeYPosition), den |-> Len(ids)]

Whole(n) == [num |-> n, den |-> 1]

\* a.bc - b.bc < 0
Before(a, b) == a.bc.num * b.bc.den < b.bc.num * a.bc.den

\* Array.prototype.sort is stable: an entry goes behind every entry that is
\* not greater than it
RECURSIVE Insert(_, _)
Insert(sorted, b) ==
    IF sorted = <<>> THEN <<b>>
    ELSE IF Before(b, Head(sorted)) THEN <<b>> \o sorted
    ELSE <<Head(sorted)>> \o Insert(Tail(sorted), b)

RECURSIVE SortFrom(_, _)
SortFrom(barycenters, sorted) ==
    IF barycenters = <<>> THEN sorted
    ELSE SortFrom(Tail(barycenters), Insert(sorted, Head(barycenters)))

\* barycenters.sort((a, b) => a.bc - b.bc), then .map((b) => b.id)
SortedIds(barycenters) ==
    LET sorted == SortFrom(barycenters, <<>>)
    IN  [k \in DOMAIN sorted |-> sorted[k].id]

\* the forward pass from layer index i - 1 (layers[i] here) to the last layer
RECURSIVE ForwardPass(_, _, _, _)
ForwardPass(i, layering, nodeYPosition, parentsOf) ==
    IF i > Len(layering) THEN [layers |-> layering, nodeYPosition |-> nodeYPosition]
    ELSE LET layer == layering[i]
             barycenters ==
                 [k \in DOMAIN layer |->
                     LET parents == Neighbours(parentsOf, layer[k])
                     IN  [id |-> layer[k],
                          bc |-> IF Len(parents) > 0
                                 THEN Average(parents, nodeYPosition)
                                 ELSE Whole(0)]]
             ordered == SortedIds(barycenters)
         IN  ForwardPass(i + 1, [layering EXCEPT ![i] = ordered],
                         Reindex(nodeYPosition, ordered), parentsOf)

\* the backward pass from layer index i - 1 (layers[i] here) down to layer 0
RECURSIVE BackwardPass(_, _, _, _)
BackwardPass(i, layering, nodeYPosition, childrenOf) ==
    IF i < 1 THEN [layers |-> layering, nodeYPosition |-> nodeYPosition]
    ELSE LET layer == layering[i]
             barycenters ==
                 [k \in DOMAIN layer |->
                     LET children == Neighbours(childrenOf, layer[k])
                     IN  [id |-> layer[k],
                          bc |-> IF Len(children) > 0
                                 THEN Average(children, nodeYPosition)
                                 ELSE Whole(YPosition(nodeYPosition, layer[k]))]]
             ordered == SortedIds(barycenters)
         IN  BackwardPass(i - 1, [layering EXCEPT ![i] = ordered],
                          Reindex(nodeYPosition, ordered), childrenOf)

\* one forward pass followed by one backward pass
Sweep(nodes, edges, layering, nodeYPosition) ==
    LET forward == ForwardPass(2, layering, nodeYPosition, inEdges(nodes, edges))
    IN  BackwardPass(Len(layering) - 1, forward.layers, forward.nodeYPosition,
                     outEdges(nodes, edges))

\* "Barycenter ordering": nodeYPosition starts with the indices of layer 0
orderLayers(nodes, edges, layering) ==
    Sweep(nodes, edges, layering,
          IF Len(layering) > 0 THEN Reindex(<<>>, layering[1]) ELSE <<>>)

\* maxLayerSize that takes the size of layer 0
maxLayerSize_First(layering) == Len(layering[1])

\* Math.max(...layers.map((l) => l.length)), for at least one layer
RECURSIVE maxLayerSize(_)
maxLayerSize(layering) ==
    IF Len(layering) = 1 THEN Len(layering[1])
    ELSE LET rest == maxLayerSize(Tail(layering))
         IN  IF Len(Head(layering)) > rest THEN Len(Head(layering)) ELSE rest

\* the layer index and the index in its layer that positions.set saw last for id
LayerIndex(layering, id) ==
    (CHOOSE i \in DOMAIN layering :
        /\ id \in Range(layering[i])
        /\ \A j \in DOMAIN layering : id \in Range(layering[j]) => j <= i) - 1

NodeIndex(layering, id) ==
    Reindex(<<>>, layering[LayerIndex(layering, id) + 1])[id]

\* assignPositions that does not centre the layers
assignPositions_Uncentred(layering) ==
    [id \in UNION {Range(layering[i]) : i \in DOMAIN layering} |->
        [x |-> LayerIndex(layering, id) * HORIZONTAL_SPACING,
         y |-> NodeIndex(layering, id) * VERTICAL_SPACING]]

\* "Calculate final positions"
assignPositions(layering) ==
    [id \in UNION {Range(layering[i]) : i \in DOMAIN layering} |->
        LET layerIndex == LayerIndex(layering, id)
            layerHeight == Len(layering[layerIndex + 1]) * VERTICAL_SPACING
            maxHeight == maxLayerSize(layering) * VERTICAL_SPACING
            offsetY == (maxHeight - layerHeight) \div 2
        IN  [x |-> layerIndex * HORIZONTAL_SPACING,
             y |-> offsetY + NodeIndex(layering, id) * VERTICAL_SPACING]]

\* the layers calculateLayout holds when it returns; none for no nodes
finalLayers(nodes, edges) ==
    IF Len(nodes) = 0 THEN <<>>
    ELSE orderLayers(nodes, edges, assignLayers(nodes, edges).layers).layers

\* calculateLayout: the position map, id -> [x, y]
calculateLayout(nodes, edges) ==
    IF Len(nodes) = 0 THEN <<>>
    ELSE assignPositions(finalLayers(nodes, edges))

\* convertToReactFlow whose later runs lay the nodes out without the edges
convertToReactFlow_ForgetsEdges ==
    /\ ~laidOut
    /\ renders < MaxRenders
    /\ laidOut' = TRUE
    /\ renders' = renders + 1
    /\ positions' = calculateLayout(graph.nodes, IF renders = 0 THEN graph.edges ELSE <<>>)
    /\ layers' = finalLayers(graph.nodes, IF renders = 0 THEN graph.edges ELSE <<>>)
    /\ iterations' = IF Len(graph.nodes) = 0 THEN 0
                     ELSE assignLayers(graph.nodes, graph.edges).iterations
    /\ UNCHANGED <<graph, connVars, toastVars, storeVars, pipeVars, histVars>>

\* the useMemo of OperatorGraph runs convertToReactFlow for the graph it was
\* given: calculateLayout lays the graph out
convertToReactFlow ==
    /\ ~laidOut
    /\ renders < MaxRenders
    /\ laidOut' = TRUE
    /\ renders' = renders + 1
    /\ positions' = calculateLayout(graph.nodes, graph.edges)
    /\ layers' = finalLayers(graph.nodes, graph.edges)
    /\ iterations' = IF Len(graph.nodes) = 0 THEN 0
                     ELSE assignLayers(graph.nodes, graph.edges).iterations
    /\ UNCHANGED <<graph, connVars, toastVars, storeVars, pipeVars, histVars>>

\* selectedNodeId or selectedTensorId changes: the dependencies of the useMemo
\* changed, so it runs convertToReactFlow again at the next render
Reselect ==
    /\ laidOut
    /\ laidOut' = FALSE
    /\ UNCHANGED <<graph, layers, positions, iterations, renders,
                   connVars, toastVars, storeVars, pipeVars, histVars>>

\* the ids an edge of a graph of n nodes can name: the declared and UnknownId
EdgeEnds(n) == {UnknownId} \cup 1..n

\* the graphs of n nodes and m edges
GraphsOf(n, m) ==
    {Graph([i \in 1..n |-> i], edges) :
        edges \in [1..m -> {GraphEdge(from, to) :
                               from \in EdgeEnds(n), to \in EdgeEnds(n)}]}

\* three sources, three nodes fed by two of them each or one, and a sink
Braid ==
    Graph(<<1, 2, 3, 4, 5, 6, 7>>,
          <<GraphEdge(2, 4), GraphEdge(4, 7), GraphEdge(6, 7), GraphEdge(2, 5),
            GraphEdge(1, 5), GraphEdge(1, 6), GraphEdge(3, 6)>>)

\* the graphs with the nodes of g and some of its edges, in g's order
Thinned(g) ==
    {Graph(g.nodes, SelectSeq(g.edges, LAMBDA edge : edge \in kept)) :
        kept \in SUBSET Range(g.edges)}

\* a 2-node cycle declared after a node that is downstream of it
Whirl ==
    Graph(<<1, 2, 3>>, <<GraphEdge(2, 3), GraphEdge(3, 2), GraphEdge(3, 1)>>)

\* A = 1 feeds B = 2 and C = 3, which both feed D = 4
Diamond ==
    Graph(<<1, 2, 3, 4>>,
          <<GraphEdge(1, 2), GraphEdge(1, 3), GraphEdge(2, 4), GraphEdge(3, 4)>>)

\* larger graphs given besides the small ones: the Braid with edges left out,
\* the Whirl and the Diamond
SampleGraphs == Thinned(Braid) \cup {Whirl, Diamond}

\* no graph was given yet
NoGraph ==
    /\ graph = EmptyGraph
    /\ laidOut = FALSE
    /\ layers = <<>>
    /\ positions = <<>>
    /\ iterations = 0
    /\ renders = 0

(* ------------------------------------------------------------------ *)
(* Specifications                                                      *)
(* ------------------------------------------------------------------ *)

\* nothing was sent and no slider was touched: each shows the stored value
PipeIdle ==
    /\ sent = <<>>
    /\ debounce = {}
    /\ localValue = [name \in DeclaredNames(currentScenario) |-> parameters[name]]
    /\ sendCalls = <<>>
    /\ burst = [name \in ParamNames |-> <<>>]

Init ==
    /\ socks = <<>>
    /\ wsRef = 0
    /\ reconnectAttemptsRef = 0
    /\ reconnectTimeoutRef = 0
    /\ timers = {}
    /\ isConnected = FALSE
    /\ mounted = FALSE
    /\ teardowns = 0
    /\ reconnectAttempts = 0
    /\ toasts = <<>>
    /\ toastTimers = {}
    /\ scenarios = <<>>
    /\ currentScenario = NullScenario
    /\ isLoadingScenarios = FALSE
    /\ isLoadingScenario = FALSE
    /\ isRunningScenario = FALSE
    /\ scenarioError = NULL
    /\ tensors = EmptyMap
    /\ selectedTensorId = NULL
    /\ parameters = EmptyMap
    /\ isUpdatingParams = FALSE
    /\ loadsPending = 0
    /\ selectsPending = <<>>
    /\ runsPending = <<>>
    /\ PipeIdle
    /\ NoGraph
    /\ lastPayload = NoPayload
    /\ prevPayload = NoPayload
    /\ attemptsStarted = 0

NextConn ==
    \/ Mount
    \/ Cleanup
    \/ \E s \in 1..MaxSockets : SocketOpen(s)
    \/ \E s \in 1..MaxSockets, failed \in BOOLEAN : SocketClose(s, failed)
    \/ \E t \in 1..MaxSockets : TimerFire(t)
    \/ \E id \in 1..(2 * MaxToasts + 1) : ToastExpire(id)

SpecConn == Init /\ [][NextConn]_vars

\* the hook with callers that send, and no teardown
NextSend ==
    \/ Mount
    \/ \E s \in 1..MaxSockets : SocketOpen(s)
    \/ \E s \in 1..MaxSockets, failed \in BOOLEAN : SocketClose(s, failed)
    \/ \E t \in 1..MaxSockets : TimerFire(t)
    \/ \E id \in 1..(2 * MaxToasts + 1) : ToastExpire(id)
    \/ \E message \in ClientMessages : HookSend(message)

SpecSend == Init /\ [][NextSend]_vars

\* the store's life while the channel is up: the state after Mount and the
\* first socket's onopen
InitStore ==
    /\ socks = <<"OPEN">>
    /\ wsRef = 1
    /\ reconnectAttemptsRef = 0
    /\ reconnectTimeoutRef = 0
    /\ timers = {}
    /\ isConnected = TRUE
    /\ mounted = TRUE
    /\ teardowns = 0
    /\ reconnectAttempts = 0
    /\ toasts = <<>>
    /\ toastTimers = {}
    /\ scenarios = <<>>
    /\ currentScenario = NullScenario
    /\ isLoadingScenarios = FALSE
    /\ isLoadingScenario = FALSE
    /\ isRunningScenario = FALSE
    /\ scenarioError = NULL
    /\ tensors = EmptyMap
    /\ selectedTensorId = NULL
    /\ parameters = EmptyMap
    /\ isUpdatingParams = FALSE
    /\ loadsPending = 0
    /\ selectsPending = <<>>
    /\ runsPending = <<>>
    /\ PipeIdle
    /\ NoGraph
    /\ lastPayload = NoPayload
    /\ prevPayload = NoPayload
    /\ attemptsStarted = 0

NextStore ==
    \/ loadScenarios
    \/ \E catalog \in Catalogs : LoadOk(catalog)
    \/ LoadFail
    \/ \E id \in ScenarioIds : selectScenario(id)
    \/ \E i \in DOMAIN selectsPending : SelectFetchOk(i)
    \/ \E i \in DOMAIN selectsPending : SelectFetchFail(i)
    \/ clearScenario
    \/ \E name \in ParamNames, value \in Values : updateParameter(name, value)
    \/ runCurrentScenario
    \/ \E i \in DOMAIN runsPending : \E response \in RunResponses(runsPending[i].sid) : RunOk(i, response)
    \/ \E i \in DOMAIN runsPending : RunFail(i)
    \/ \E id \in TensorIds : selectTensor(id)
    \/ \E id \in 1..(2 * MaxToasts + 1) : ToastExpire(id)

SpecStore == InitStore /\ [][NextStore]_vars

\* every outstanding fetch eventually resolves or rejects
LoadResolves == LoadFail \/ \E catalog \in Catalogs : LoadOk(catalog)
SelectFetchResolves == \E i \in DOMAIN selectsPending : SelectFetchOk(i) \/ SelectFetchFail(i)
RunResolves ==
    \E i \in DOMAIN runsPending :
        RunFail(i) \/ \E response \in RunResponses(runsPending[i].sid) : RunOk(i, response)

\* the asynchronous store actions alone (no parameter edit, no tensor selection)
NextFetch ==
    \/ loadScenarios
    \/ \E catalog \in Catalogs : LoadOk(catalog)
    \/ LoadFail
    \/ \E id \in ScenarioIds : selectScenario(id)
    \/ \E i \in DOMAIN selectsPending : SelectFetchOk(i)
    \/ \E i \in DOMAIN selectsPending : SelectFetchFail(i)
    \/ clearScenario
    \/ runCurrentScenario
    \/ \E i \in DOMAIN runsPending : \E response \in RunResponses(runsPending[i].sid) : RunOk(i, response)
    \/ \E i \in DOMAIN runsPending : RunFail(i)
    \/ \E id \in 1..(2 * MaxToasts + 1) : ToastExpire(id)

SpecStoreFair ==
    /\ InitStore
    /\ [][NextFetch]_vars
    /\ WF_vars(LoadResolves)
    /\ WF_vars(SelectFetchResolves)
    /\ WF_vars(RunResolves)

\* the store's life once scenario A is selected and its first run has
\* resolved, with inbound messages and no fetch in flight
InitSync ==
    /\ socks = <<"OPEN">>
    /\ wsRef = 1
    /\ reconnectAttemptsRef = 0
    /\ reconnectTimeoutRef = 0
    /\ timers = {}
    /\ isConnected = TRUE
    /\ mounted = TRUE
    /\ teardowns = 0
    /\ reconnectAttempts = 0
    /\ toasts = <<>>
    /\ toastTimers = {}
    /\ scenarios = <<"A", "B">>
    /\ currentScenario = ScenarioDetail("A")
    /\ isLoadingScenarios = FALSE
    /\ isLoadingScenario = FALSE
    /\ isRunningScenario = FALSE
    /\ scenarioError = NULL
    /\ tensors \in RunResponses("A")
    /\ selectedTensorId = NULL
    /\ parameters = DefaultParams(ScenarioDetail("A"))
    /\ isUpdatingParams = FALSE
    /\ loadsPending = 0
    /\ selectsPending = <<>>
    /\ runsPending = <<>>
    /\ PipeIdle
    /\ NoGraph
    /\ lastPayload = NoPayload
    /\ prevPayload = NoPayload
    /\ attemptsStarted = 0

NextSync ==
    \/ \E data \in Payloads : SocketMessage(1, data)
    \/ \E name \in ParamNames, value \in Values : updateParameter(name, value)
    \/ \E id \in TensorIds : selectTensor(id)
    \/ clearScenario
    \/ \E id \in 1..(2 * MaxToasts + 1) : ToastExpire(id)

SpecSync == InitSync /\ [][NextSync]_vars

\* the parameter pipeline of scenario A over a channel that drops and
\* reconnects
NextPipe ==
    \/ \E name \in ParamNames, value \in Values : SliderChange(name, value)
    \/ \E t \in DebounceTimers : DebounceFire(t)
    \/ \E s \in 1..MaxSockets : SocketOpen(s)
    \/ \E s \in 1..MaxSockets, failed \in BOOLEAN : SocketClose(s, failed)
    \/ \E t \in 1..MaxSockets : TimerFire(t)
    \/ \E id \in 1..(2 * MaxToasts + 1) : ToastExpire(id)

SpecPipe == InitSync /\ [][NextPipe]_vars

\* every auto-remove timer that was set eventually fires
SpecSyncFair ==
    /\ InitSync
    /\ [][NextSync]_vars
    /\ \A id \in 1..(2 * MaxToasts + 1) : WF_vars(ToastExpire(id))

\* the sliders with scenarios being selected and cleared, the channel open;
\* the run requests of the selections stay outstanding
NextSlider ==
    \/ \E name \in ParamNames, value \in Values : SliderChange(name, value)
    \/ \E t \in DebounceTimers : DebounceFire(t)
    \/ clearScenario
    \/ \E id \in ScenarioIds : selectScenario(id)
    \/ \E i \in DOMAIN selectsPending : SelectFetchOk(i)

SpecSlider == InitSync /\ [][NextSlider]_vars

\* what the server sends in answer to an update_param message: the recomputed
\* tensors or an error
Replies ==
    {data \in Payloads : data.text = "json" /\ data.value.type \in {"tensors_update", "error"}}

\* the parameter pipeline with the server's answers arriving on the current
\* socket
NextUpdate ==
    \/ NextPipe
    \/ \E data \in Replies : SocketMessage(wsRef, data)

\* timers that were set fire (debounce, reconnect, toast auto-remove); nothing
\* obliges the server to answer or the network to open or close a socket
SpecUpdateFair ==
    /\ InitSync
    /\ [][NextUpdate]_vars
    /\ \A t \in DebounceTimers : WF_vars(DebounceFire(t))
    /\ \A t \in 1..MaxSockets : WF_vars(TimerFire(t))
    /\ \A id \in 1..(2 * MaxToasts + 1) : WF_vars(ToastExpire(id))

\* the OperatorGraph given a graph, before its first render: any graph of
\* MaxNodes nodes and MaxEdges edges at most, or one of SampleGraphs
InitLayout ==
    /\ socks = <<>>
    /\ wsRef = 0
    /\ reconnectAttemptsRef = 0
    /\ reconnectTimeoutRef = 0
    /\ timers = {}
    /\ isConnected = FALSE
    /\ mounted = FALSE
    /\ teardowns = 0
    /\ reconnectAttempts = 0
    /\ toasts = <<>>
    /\ toastTimers = {}
    /\ scenarios = <<>>
    /\ currentScenario = NullScenario
    /\ isLoadingScenarios = FALSE
    /\ isLoadingScenario = FALSE
    /\ isRunningScenario = FALSE
    /\ scenarioError = NULL
    /\ tensors = EmptyMap
    /\ selectedTensorId = NULL
    /\ parameters = EmptyMap
    /\ isUpdatingParams = FALSE
    /\ loadsPending = 0
    /\ selectsPending = <<>>
    /\ runsPending = <<>>
    /\ PipeIdle
    /\ lastPayload = NoPayload
    /\ prevPayload = NoPayload
    /\ attemptsStarted = 0
    /\ \/ \E n \in 0..MaxNodes, m \in 0..MaxEdges : graph \in GraphsOf(n, m)
       \/ graph \in SampleGraphs
    /\ laidOut = FALSE
    /\ layers = <<>>
    /\ positions = <<>>
    /\ iterations = 0
    /\ renders = 0

NextLayout ==
    \/ convertToReactFlow
    \/ Reselect

SpecLayout == InitLayout /\ [][NextLayout]_vars

Next ==
    \/ NextLayout
    \/ NextSlider
    \/ NextConn
    \/ NextSend
    \/ NextPipe
    \/ NextStore
    \/ NextSync
    \/ \E id \in 1..(2 * MaxToasts + 1) : DismissToast(id)

Spec == Init /\ [][Next]_vars

(* ------------------------------------------------------------------ *)
(* Claims                                                              *)
(* ------------------------------------------------------------------ *)

\* C1: once the connect effect is cleaned up, and until it runs again, no
\* reconnection timer is pending and no new WebSocket is created.
C1_TeardownIsTerminal ==
    [][/\ ~mounted' => timers' = {}
       /\ (~mounted /\ ~mounted') => Len(socks') = Len(socks)]_vars

\* C2: after maxReconnectAttempts consecutive disconnects with no open in
\* between (App's reconnectAttempts counts them), the connection is failed and
\* no reconnection timer is pending; stated for a hook that was never torn down.
C2_ReconnectCap ==
    (teardowns = 0 /\ reconnectAttempts = MaxReconnectAttempts) =>
        ConnectionStatus = "failed" /\ timers = {}

\* C3: a run result that resolves when another scenario than the one it was
\* requested for is current does not change tensors.
C3_StaleRunIgnored ==
    [][\A i \in DOMAIN runsPending :
         \A response \in RunResponses(runsPending[i].sid) :
            (/\ RunOk(i, response)
             /\ currentScenario # NullScenario
             /\ runsPending[i].sid # currentScenario.id)
                => tensors' = tensors]_vars

\* the step in which the selectScenario call behind run request i resolves
SelectResolves(i) ==
    /\ runsPending[i].sel
    /\ \/ RunFail(i)
       \/ \E response \in RunResponses(runsPending[i].sid) : RunOk(i, response)

\* C4: in the state where selectScenario(B) resolves, parameters is exactly
\* B's declared defaults and tensors is empty or exactly a map of B's run;
\* stated for the resolutions at which B is still current and parameters are
\* what they were when its run was requested.
C4_SwitchAtomicity ==
    [][\A i \in DOMAIN runsPending :
         (/\ SelectResolves(i)
          /\ currentScenario.id = runsPending[i].sid
          /\ parameters = runsPending[i].params)
            => /\ parameters' = DefaultParams(ScenarioDetail(runsPending[i].sid))
               /\ \/ tensors' = EmptyMap
                  \/ tensors' \in RunResponses(runsPending[i].sid)]_vars

\* C5: the step that makes another scenario current also sets parameters to
\* exactly its declared defaults, empties tensors and clears selectedTensorId;
\* parameters never has the key set of another scenario.
C5_SwitchIsOneStep ==
    [][/\ (currentScenario' # currentScenario /\ currentScenario' # NullScenario)
            => /\ DOMAIN parameters' = DeclaredNames(currentScenario')
               /\ \A i \in DOMAIN currentScenario'.parameters :
                     parameters'[currentScenario'.parameters[i].name]
                         = currentScenario'.parameters[i].default
               /\ tensors' = EmptyMap
               /\ selectedTensorId' = NULL
       /\ currentScenario' # NullScenario
            => DOMAIN parameters' = DeclaredNames(currentScenario')]_vars

\* a switch from A to B has happened: B is current with its defaults while
\* the run requested for A is still outstanding
C5_Witness ==
    /\ currentScenario = ScenarioDetail("B")
    /\ parameters = [p |-> 2, q |-> 1]
    /\ tensors = EmptyMap
    /\ selectedTensorId = NULL
    /\ \E i \in DOMAIN runsPending : runsPending[i].sid = "A"

IsTensorUpdate(data) == data.text = "json" /\ data.value.type = "tensor_update"
IsTensorsUpdate(data) == data.text = "json" /\ data.value.type = "tensors_update"

\* C6: when a tensors_update(map) is applied after a tensor_update(id, s),
\* tensors is map exactly: id is absent if map has no id, else it is map's entry.
C6_FullReplaceWins ==
    [][\A data \in Payloads :
         (SocketMessage(1, data) /\ IsTensorsUpdate(data) /\ IsTensorUpdate(lastPayload))
            => LET map == data.value.tensors
                   id == lastPayload.value.tensor_id
               IN  /\ DOMAIN tensors' = DOMAIN map
                   /\ \A k \in DOMAIN map : tensors'[k] = map[k]
                   /\ id \notin DOMAIN map => id \notin DOMAIN tensors']_vars

\* tensor_update(t2, s) then tensors_update(map) without t2 were applied
C6_Witness ==
    /\ IsTensorUpdate(prevPayload)
    /\ prevPayload.value.tensor_id = "t2"
    /\ IsTensorsUpdate(lastPayload)
    /\ "t2" \notin DOMAIN lastPayload.value.tensors
    /\ tensors = lastPayload.value.tensors

\* C7: applying tensor_update(id, s) sets tensors[id] = s, keeps every other
\* key with its value, adds no other key and changes no other store field.
C7_TensorUpdateFrame ==
    [][\A data \in Payloads :
         (SocketMessage(1, data) /\ IsTensorUpdate(data))
            => LET id == data.value.tensor_id
               IN  /\ tensors'[id] = data.value.summary
                   /\ DOMAIN tensors' = DOMAIN tensors \cup {id}
                   /\ \A k \in DOMAIN tensors \ {id} : tensors'[k] = tensors[k]
                   /\ UNCHANGED <<currentScenario, parameters, selectedTensorId,
                                  scenarios>>]_vars

\* tensor_update(t2, s) was applied to a map that held another key, t1, with
\* a scenario current and a tensor selected
C7_Witness ==
    /\ IsTensorUpdate(lastPayload)
    /\ lastPayload.value.tensor_id = "t2"
    /\ DOMAIN tensors = {"t1", "t2"}
    /\ tensors["t2"] = lastPayload.value.summary
    /\ tensors["t1"] # tensors["t2"]
    /\ currentScenario # NullScenario
    /\ selectedTensorId = "t1"

\* C8: each loading flag that is raised is lowered again, whether the fetch
\* resolves or rejects.
C8_FlagsAreReset ==
    /\ isLoadingScenarios ~> ~isLoadingScenarios
    /\ isLoadingScenario ~> ~isLoadingScenario
    /\ isRunningScenario ~> ~isRunningScenario

\* a catalog fetch has failed and nothing is in flight: no flag is raised
C8_Witness ==
    /\ scenarioError = ErrorMessage
    /\ Outstanding = 0
    /\ Len(toasts) > 0
    /\ ~isLoadingScenarios /\ ~isLoadingScenario /\ ~isRunningScenario

\* C9: a loading flag is true whenever a request of its operation is
\* outstanding.
C9_FlagsMatchInFlight ==
    /\ Len(runsPending) > 0 => isRunningScenario
    /\ Len(selectsPending) > 0 => isLoadingScenario
    /\ loadsPending > 0 => isLoadingScenarios

\* C10: a failed catalog or detail fetch sets scenarioError to a message and
\* leaves scenarios, currentScenario, parameters, tensors and selectedTensorId
\* as they were; so does the call that started the fetch.
C10_FetchFailureFrame ==
    [][/\ (LoadFail \/ \E i \in DOMAIN selectsPending : SelectFetchFail(i))
            => /\ scenarioError' = ErrorMessage
               /\ UNCHANGED <<scenarios, currentScenario, parameters, tensors,
                              selectedTensorId>>
               /\ UNCHANGED runsPending
       /\ (loadScenarios \/ \E id \in ScenarioIds : selectScenario(id))
            => UNCHANGED <<scenarios, currentScenario, parameters, tensors,
                           selectedTensorId>>]_vars

\* a detail fetch failed while scenario A was current with tensors shown and
\* one selected
C10_Witness ==
    /\ scenarioError = ErrorMessage
    /\ \E i \in DOMAIN toasts : toasts[i].type = "error"
    /\ currentScenario = ScenarioDetail("A")
    /\ tensors \in RunResponses("A")
    /\ selectedTensorId = "t1"
    /\ Outstanding = 0

\* C11: a failed run keeps tensors as they were, adds one error toast with
\* the failure's message and lowers isRunningScenario; a successful run makes
\* tensors exactly the response's map.
C11_RunOutcome ==
    [][\A i \in DOMAIN runsPending :
         /\ RunFail(i)
              => /\ tensors' = tensors
                 /\ isRunningScenario' = FALSE
                 /\ Len(toasts') = Len(toasts) + 1
                 /\ toasts'[Len(toasts')].type = "error"
                 /\ toasts'[Len(toasts')].message = ErrorMessage
         /\ \A response \in RunResponses(runsPending[i].sid) :
              RunOk(i, response)
                 => tensors' = response /\ isRunningScenario' = FALSE]_vars

\* a run of scenario A failed after an earlier run had filled tensors: the
\* earlier tensors are still shown under the error toast
C11_Witness ==
    /\ currentScenario = ScenarioDetail("A")
    /\ tensors \in RunResponses("A")
    /\ \E i \in DOMAIN toasts : toasts[i].type = "error"
    /\ scenarioError = NULL
    /\ ~isRunningScenario
    /\ Outstanding = 0

\* C12: updateParameter(name, value) sets parameters[name] = value, keeps
\* every other parameter and every other store field, starts no request and
\* transmits nothing.
C12_UpdateParameterFrame ==
    [][\A name \in ParamNames, value \in Values :
         updateParameter(name, value)
            => /\ parameters'[name] = value
               /\ DOMAIN parameters' = DOMAIN parameters \cup {name}
               /\ \A k \in DOMAIN parameters \ {name} : parameters'[k] = parameters[k]
               /\ UNCHANGED <<scenarios, currentScenario, tensors, selectedTensorId,
                              flagVars, toastVars>>
               /\ UNCHANGED reqVars
               /\ UNCHANGED sent]_vars

\* both parameters of scenario B were edited away from their defaults after
\* its run resolved, and nothing is in flight
C12_Witness ==
    /\ currentScenario = ScenarioDetail("B")
    /\ parameters = [p |-> 1, q |-> 2]
    /\ tensors \in RunResponses("B")
    /\ Outstanding = 0
    /\ ~isRunningScenario
    /\ sent = <<>>

\* the messages handed to send while the socket was open, in call order
TransmittedCalls ==
    LET made == SelectSeq(sendCalls, LAMBDA c : c.open)
    IN  [i \in 1..Len(made) |-> made[i].msg]

\* C13: what was transmitted is, in order and once each, the messages handed
\* to send while the socket was open; a message handed over while it was not
\* open is in no later state transmitted.
C13_NoStoreAndForward ==
    /\ Len(sent) = Len(TransmittedCalls)
    /\ \A i \in 1..Len(sent) : sent[i] = TransmittedCalls[i]

\* a message was handed over while no socket was open and dropped; a later
\* socket opened after a reconnect and carried only the second message
C13_Witness ==
    /\ Len(sendCalls) = 2
    /\ ~sendCalls[1].open
    /\ sendCalls[2].open
    /\ sendCalls[1].msg # sendCalls[2].msg
    /\ Len(socks) >= 2
    /\ socks[wsRef] = "OPEN"
    /\ sent = <<sendCalls[2].msg>>

\* C14: every onopen sets the hook's attempt counter to zero, whatever it
\* was, and with the counter at zero the next close schedules a retry: the
\* whole budget of maxReconnectAttempts retries is available again.
C14_OpenResetsBudget ==
    [][\A s \in {x \in 1..Len(socks) : socks'[x] # socks[x]} :
         /\ SocketOpen(s) => reconnectAttemptsRef' = 0 /\ reconnectAttempts' = 0
         /\ \A failed \in BOOLEAN :
              (SocketClose(s, failed) /\ reconnectAttemptsRef = 0)
                 => /\ s \in timers'
                    /\ reconnectAttemptsRef' = 1]_vars

\* the third socket opened after two failed attempts: the counter is zero
\* again, on a hook never torn down
C14_Witness ==
    /\ teardowns = 0
    /\ Len(socks) = 3
    /\ socks = <<"CLOSED", "CLOSED", "OPEN">>
    /\ reconnectAttemptsRef = 0
    /\ reconnectAttempts = 0
    /\ isConnected

\* the WebSockets that are connecting or open
LiveSockets == {s \in 1..Len(socks) : socks[s] \in {"CONNECTING", "OPEN"}}

\* C15: in every reachable state at most one WebSocket the hook created is
\* connecting or open.
C15_AtMostOneLive == Cardinality(LiveSockets) <= 1

\* the effect was cleaned up and re-run, socket 2 opened, then socket 1's
\* close event scheduled a reconnect whose connect() returned at the guard
C15_Witness ==
    /\ teardowns >= 1
    /\ socks = <<"CLOSED", "OPEN">>
    /\ wsRef = 2
    /\ reconnectAttemptsRef = 1
    /\ timers = {}
    /\ mounted

\* C16: a payload that fails to parse changes no connection state, no store
\* field and no toast, and leaves the socket open; the well-formed message
\* that follows it is dispatched as usual.
C16_MalformedPayloadIgnored ==
    [][\A data \in Payloads :
         /\ (SocketMessage(1, data) /\ data.text = "garbage")
              => /\ UNCHANGED <<connVars, storeVars, toastVars, pipeVars>>
                 /\ socks'[1] = "OPEN"
         /\ (SocketMessage(1, data) /\ lastPayload.text = "garbage"
                                    /\ IsTensorUpdate(data))
              => tensors'[data.value.tensor_id] = data.value.summary
         /\ (SocketMessage(1, data) /\ lastPayload.text = "garbage"
                                    /\ IsTensorsUpdate(data))
              => tensors' = data.value.tensors]_vars

\* text that is no JSON arrived, then a tensor_update for a new key, which
\* was applied
C16_Witness ==
    /\ prevPayload.text = "garbage"
    /\ IsTensorUpdate(lastPayload)
    /\ lastPayload.value.tensor_id = "t2"
    /\ "t2" \in DOMAIN tensors
    /\ tensors["t2"] = lastPayload.value.summary
    /\ socks[1] = "OPEN"
    /\ isConnected

\* a connection lifecycle event of the hook: an open, a close (with or
\* without error, scheduling a retry or giving up), a reconnect timer
LifecycleEvent ==
    \/ \E s \in 1..MaxSockets : SocketOpen(s)
    \/ \E s \in 1..MaxSockets, failed \in BOOLEAN : SocketClose(s, failed)
    \/ \E t \in 1..MaxSockets : TimerFire(t)

\* C17: no connection lifecycle event changes the store's parameters.
C17_LifecycleKeepsParameters ==
    [][LifecycleEvent => parameters' = parameters]_vars

\* the user set p to 2 and it was sent; the channel then dropped and every
\* retry failed: the stored value is still the user's
C17_Witness ==
    /\ parameters = [p |-> 2]
    /\ sent = <<updateParam("A", "p", 2)>>
    /\ debounce = {}
    /\ ConnectionStatus = "failed"
    /\ timers = {}
    /\ Len(socks) > MaxReconnectAttempts

IsError(data) == data.text = "json" /\ data.value.type = "error"

ToastShown(id) == \E i \in DOMAIN toasts : toasts[i].id = id

\* C18: an inbound error{message} appends exactly one toast, of type error
\* and with that message, and leaves currentScenario, parameters, tensors and
\* selectedTensorId as they were; every toast shown is eventually removed by
\* its timer.
C18_ErrorToast ==
    /\ [][\A data \in Payloads :
            (SocketMessage(1, data) /\ IsError(data))
               => /\ Len(toasts') = Len(toasts) + 1
                  /\ SubSeq(toasts', 1, Len(toasts)) = toasts
                  /\ toasts'[Len(toasts')].type = "error"
                  /\ toasts'[Len(toasts')].message = data.value.message
                  /\ UNCHANGED <<currentScenario, parameters, tensors,
                                 selectedTensorId, scenarios>>]_vars
    /\ \A id \in 1..(2 * MaxToasts + 1) : ToastShown(id) ~> ~ToastShown(id)

\* a server error was received, its toast was shown and has expired again,
\* with scenario A, its tensors and a selection still in place
C18_Witness ==
    /\ IsError(lastPayload)
    /\ toasts = <<>>
    /\ toastTimers = {}
    /\ currentScenario = ScenarioDetail("A")
    /\ tensors \in RunResponses("A")
    /\ selectedTensorId = "t1"

Last(q) == q[Len(q)]

\* C19: a slider change passes nothing downstream (no store write, nothing
\* sent); when the debounce timer fires, onChange gets the last value of the
\* burst, no timer of that slider is left, so the burst is passed exactly
\* once, and what is sent, if anything, carries that last value.
C19_Debounce ==
    [][/\ \A name \in ParamNames, value \in Values :
            SliderChange(name, value)
               => UNCHANGED <<parameters, sent, isUpdatingParams>>
       /\ \A t \in DebounceTimers :
            DebounceFire(t)
               => /\ t.value = Last(burst[t.name])
                  /\ parameters'[t.name] = Last(burst[t.name])
                  /\ \A u \in debounce' : u.name # t.name
                  /\ \/ sent' = sent
                     \/ /\ Len(sent') = Len(sent) + 1
                        /\ Last(sent').param = t.name
                        /\ Last(sent').value = Last(burst[t.name])]_vars

\* on a channel that never dropped, p went 1 -> 2 -> 1 within one window: only
\* the final value 1 was passed on and sent, once
C19_Witness ==
    /\ socks = <<"OPEN">>
    /\ burst["p"] = <<>>
    /\ debounce = {}
    /\ parameters = [p |-> 1]
    /\ sent = <<updateParam("A", "p", 1)>>
    /\ isUpdatingParams

\* C20: when a debounce timer fires while the channel is connected and a
\* scenario is current, update_param with the current scenario's id, the
\* parameter's name and the burst's last value is transmitted.
C20_FinalValueSent ==
    [][\A t \in DebounceTimers :
         (/\ DebounceFire(t)
          /\ isConnected
          /\ wsRef # 0 /\ socks[wsRef] = "OPEN"
          /\ currentScenario # NullScenario)
            => sent' = Append(sent,
                   updateParam(currentScenario.id, t.name, Last(burst[t.name])))]_vars

ChannelOpen == wsRef # 0 /\ socks[wsRef] = "OPEN"

\* C21: when a debounce timer fires while the channel is not connected,
\* nothing is transmitted in that step and parameters[name] becomes the
\* user's last value; nothing is transmitted later either: the transmitted
\* messages grow only in a timer step taken while the socket is open.
C21_DroppedWhenDisconnected ==
    [][/\ \A t \in DebounceTimers :
            (DebounceFire(t) /\ ~(isConnected /\ ChannelOpen))
               => /\ sent' = sent
                  /\ parameters'[t.name] = Last(burst[t.name])
       /\ sent' # sent
            => /\ ChannelOpen
               /\ \E t \in DebounceTimers : DebounceFire(t)]_vars

\* p was set to 2 on an open channel, the channel dropped before the timer
\* fired, so updateParam was called and dropped; the channel has reopened
\* since and still nothing was transmitted, while the store holds 2
C21_Witness ==
    /\ parameters = [p |-> 2]
    /\ sent = <<>>
    /\ isUpdatingParams
    /\ debounce = {}
    /\ burst["p"] = <<>>
    /\ Len(socks) >= 2
    /\ isConnected /\ ChannelOpen

\* the sliders mounted in a state: one per declared parameter
Mounted == DeclaredNames(currentScenario)

DeclaredDefaults(sid) ==
    [name \in DeclaredNames(ScenarioDetail(sid)) |->
        LET ps == DeclaredParameters(sid)
        IN  ps[CHOOSE k \in DOMAIN ps : ps[k].name = name].default]

\* C23: the call selectScenario(B) issues no run request before its detail
\* fetch resolves; when the fetch resolves, the one request it issues is for
\* B with exactly B's declared defaults, in the step that makes B current;
\* when the fetch fails it issues none.
C23_RunAfterSwitch ==
    [][/\ (\E id \in ScenarioIds : selectScenario(id)) => UNCHANGED runsPending
       /\ \A i \in DOMAIN selectsPending :
            /\ SelectFetchOk(i)
                 => /\ currentScenario'.id = selectsPending[i]
                    /\ Len(runsPending') = Len(runsPending) + 1
                    /\ SubSeq(runsPending', 1, Len(runsPending)) = runsPending
                    /\ runsPending'[Len(runsPending')].sid = selectsPending[i]
                    /\ runsPending'[Len(runsPending')].params
                           = DeclaredDefaults(selectsPending[i])
            /\ SelectFetchFail(i) => UNCHANGED runsPending]_vars

\* B was selected and its detail fetch has resolved: the only request
\* outstanding is the run of B with B's defaults
C23_Witness ==
    /\ currentScenario = ScenarioDetail("B")
    /\ runsPending = <<[sid |-> "B", params |-> [p |-> 2, q |-> 1], sel |-> TRUE]>>
    /\ selectsPending = <<>>
    /\ loadsPending = 0
    /\ isRunningScenario

\* the ids the graph declares
DeclaredIds == Range(graph.nodes)

\* C24: the key set of the position map calculateLayout returned is exactly
\* the set of declared node ids: none is missing and no other key is present.
C24_LayoutComplete == laidOut => DOMAIN positions = DeclaredIds

\* the declared nodes the peeling loop never reached
Unreached == DeclaredIds \ assignLayers(graph.nodes, graph.edges).visited

\* the edges of the graph without those that have an undeclared end
KnownEdges ==
    SelectSeq(graph.edges,
              LAMBDA edge : edge.from_node \in DeclaredIds /\ edge.to_node \in DeclaredIds)

\* the edges of the graph without its self-loops
LooplessEdges == SelectSeq(graph.edges, LAMBDA edge : edge.from_node # edge.to_node)

\* every edge of the graph joins two different declared nodes
PlainGraph == KnownEdges = graph.edges /\ LooplessEdges = graph.edges

\* C25: every declared node the peeling loop never reached has a position, and
\* all of them are in one layer, the one whose index is the number of layers
\* the loop resolved: they have the x coordinate of that layer; stated for the
\* graphs whose edges all join two different declared nodes.
C25_OneFallbackLayer ==
    (laidOut /\ PlainGraph) =>
        \A id \in Unreached :
            /\ id \in DOMAIN positions
            /\ positions[id].x = iterations * HORIZONTAL_SPACING

\* the edges of the graph that join two declared nodes
NodeEdges ==
    {edge \in Range(graph.edges) :
        edge.from_node \in DeclaredIds /\ edge.to_node \in DeclaredIds}

\* the nodes that paths along NodeEdges lead to from the nodes of seen
RECURSIVE ReachableFrom(_)
ReachableFrom(seen) ==
    LET next == seen \cup {edge.to_node : edge \in {e \in NodeEdges : e.from_node \in seen}}
    IN  IF next = seen THEN seen ELSE ReachableFrom(next)

\* the edge lies on a cycle: its source is reachable from its target
OnCycle(edge) == edge.from_node \in ReachableFrom({edge.to_node})

C27_UnknownEndsDropped ==
    laidOut => positions = calculateLayout(graph.nodes, KnownEdges)

\* C28: the layer and the place in its layer of every node are those computed
\* for the same graph without its self-loop edges; stated for the graphs whose
\* edges all join declared nodes.
C28_SelfLoopsSatisfied ==
    (laidOut /\ KnownEdges = graph.edges)
        => layers = finalLayers(graph.nodes, LooplessEdges)

\* the places of id in the layers: <<layer, index>>
Places(id) ==
    {<<i, k>> \in UNION {{i} \X DOMAIN layers[i] : i \in DOMAIN layers} :
        layers[i][k] = id}

\* C29: the peeling loop makes at most |V| iterations, and every declared
\* node is in exactly one layer, exactly once.
C29_LayeringTerminates ==
    laidOut =>
        /\ iterations <= Len(graph.nodes)
        /\ \A id \in DeclaredIds : Cardinality(Places(id)) = 1

\* the index of every placed id in its layer
RECURSIVE IndexAll(_, _)
IndexAll(layering, nodeYPosition) ==
    IF layering = <<>> THEN nodeYPosition
    ELSE IndexAll(Tail(layering), Reindex(nodeYPosition, Head(layering)))

\* the layers after one more forward pass and one more backward pass
ExtraPass ==
    Sweep(graph.nodes, graph.edges, layers, IndexAll(layers, <<>>)).layers

\* the edges, by their place in graph.edges, that join two adjacent layers of
\* layering
Adjacent(layering) ==
    {k \in DOMAIN graph.edges :
        LET from == graph.edges[k].from_node
            to == graph.edges[k].to_node
            placed == UNION {Range(layering[i]) : i \in DOMAIN layering}
        IN  /\ from \in placed /\ to \in placed
            /\ LayerIndex(layering, from) - LayerIndex(layering, to) \in {-1, 1}}

\* edge k as <<its layer of lower index, the index of its end there, the
\* index of its other end>>
Span(layering, k) ==
    LET from == graph.edges[k].from_node
        to == graph.edges[k].to_node
    IN  IF LayerIndex(layering, from) < LayerIndex(layering, to)
        THEN <<LayerIndex(layering, from), NodeIndex(layering, from), NodeIndex(layering, to)>>
        ELSE <<LayerIndex(layering, to), NodeIndex(layering, to), NodeIndex(layering, from)>>

\* the number of pairs of edges between the same two adjacent layers whose
\* ends are in opposite order in the two layers
Crossings(layering) ==
    Cardinality({pair \in Adjacent(layering) \X Adjacent(layering) :
        LET a == Span(layering, pair[1])
            b == Span(layering, pair[2])
        IN  a[1] = b[1] /\ a[2] < b[2] /\ a[3] > b[3]})

\* C30: one more forward pass and backward pass over the layers calculateLayout
\* produced does not raise the number of crossings between adjacent layers;
\* stated for the graphs whose edges all join two different declared nodes.
C30_SweepDoesNotRegress ==
    (laidOut /\ PlainGraph) => Crossings(ExtraPass) <= Crossings(layers)

C32_DiamondLayout ==
    (laidOut /\ graph = Diamond) =>
        /\ DOMAIN positions = {1, 2, 3, 4}
        /\ positions[1].x = 0
        /\ positions[2].x = HORIZONTAL_SPACING
        /\ positions[3].x = HORIZONTAL_SPACING
        /\ positions[4].x = 2 * HORIZONTAL_SPACING
        /\ {positions[2].y, positions[3].y} = {0, VERTICAL_SPACING}
        /\ 2 * positions[4].y = positions[2].y + positions[3].y

\* the Diamond was laid out, D in the third layer
C32_Witness ==
    /\ laidOut
    /\ graph = Diamond
    /\ layers = <<<<1>>, <<2, 3>>, <<4>>>>

\* the size of the tallest layer
Tallest == CHOOSE m \in {Len(layers[i]) : i \in DOMAIN layers} :
               \A i \in DOMAIN layers : Len(layers[i]) <= m

\* C33: the node at index i of layer L, of n nodes, has x = L * 280 and
\* y = i * 100 + (m - n) * 100 / 2, m the size of the tallest layer; no two
\* ids have the same position.
C33_Coordinates ==
    laidOut =>
        /\ \A l \in DOMAIN layers :
             \A k \in DOMAIN layers[l] :
                positions[layers[l][k]] =
                    [x |-> (l - 1) * HORIZONTAL_SPACING,
                     y |-> (k - 1) * VERTICAL_SPACING
                           + ((Tallest - Len(layers[l])) * VERTICAL_SPACING) \div 2]
        /\ \A a \in DOMAIN positions, b \in DOMAIN positions :
             positions[a] = positions[b] => a = b

\* a layout with layers of different sizes: a node is moved down by half the
\* difference to the tallest layer
C33_Witness ==
    /\ laidOut
    /\ PlainGraph
    /\ \E l \in DOMAIN layers : Len(layers[l]) = 1 /\ Tallest = 3
    /\ \E id \in DOMAIN positions : positions[id].y = VERTICAL_SPACING /\ positions[id].x > 0

\* C34: isUpdatingParams cannot stay stuck: whenever handleParameterChange has
\* set the flag, it is false again at some later time, also when the channel
\* closes before the answer, the send is dropped, or the server stays silent
C34_UpdatingClears == isUpdatingParams ~> ~isUpdatingParams

\* no close() call is waiting for its close event
Settled == \A s \in 1..Len(socks) : socks[s] # "CLOSING"

\* C35: between handlers isConnected is true exactly when the socket held in
\* wsRef is open, whatever the order of the open and close callbacks of old
\* and new sockets (stated for the states where every closed socket has
\* delivered its close event)
C35_FlagMatchesChannel == Settled => (isConnected <=> ChannelOpen)

\* C36: the reconnection attempts started since the last successful open (or
\* since the connect effect last ran, if no socket opened since) never
\* exceed maxReconnectAttempts
C36_AttemptsCapped == attemptsStarted <= MaxReconnectAttempts

\* C37: while currentScenario is null, tensors and parameters are empty and
\* selectedTensorId is null, whatever arrives or resolves meanwhile
C37_NoDataWithoutScenario ==
    currentScenario = NullScenario =>
        /\ tensors = EmptyMap
        /\ parameters = EmptyMap
        /\ selectedTensorId = NULL

IsGraphUpdate(data) == data.text = "json" /\ data.value.type = "graph_update"

\* C38: an inbound graph_update message is ignored: it leaves currentScenario,
\* the graph, parameters, tensors, selectedTensorId, isUpdatingParams and the
\* toast list as they were
C38_GraphUpdateIgnored ==
    [][\A data \in Payloads :
         (SocketMessage(1, data) /\ IsGraphUpdate(data))
            => UNCHANGED <<currentScenario, graph, parameters, tensors, selectedTensorId,
                           isUpdatingParams, toasts>>]_vars

\* a graph_update arrived while scenario A was current with a changed
\* parameter, two tensors, a selected tensor and a toast on display, and all
\* of them are still there
C38_Witness ==
    /\ IsGraphUpdate(lastPayload)
    /\ IsTensorUpdate(prevPayload)
    /\ currentScenario # NullScenario
    /\ parameters # DefaultParams(currentScenario)
    /\ Cardinality(DOMAIN tensors) = 2
    /\ selectedTensorId \in DOMAIN tensors
    /\ Len(toasts) > 0
    /\ ~isUpdatingParams

====
